---- MODULE Spec2Model ----
(***************************************************************************)
(* A model of the DIMACS lexer (src/src/lexer.rs) and of the recursive     *)
(* descent parser (src/src/parser.rs).                                     *)
(*                                                                         *)
(* Bytes are their ASCII codes.  An input is a finite sequence of bytes.   *)
(* The byte iterator a Lexer owns is modelled by the input and the number  *)
(* of bytes it has yielded so far (idx).                                   *)
(***************************************************************************)
EXTENDS Integers, Sequences, FiniteSets, TLC

VARIABLES
    input,      \* the bytes handed to Lexer::from / ValidLexer::from / Parser::from
    entry,      \* which client drives the objects built on the input
    lexer,      \* a raw Lexer iterated directly
    rout,       \* the calls lexer.next() has answered with Some(..), in order
    rdone,      \* lexer.next() has answered None
    vlexer,     \* the Lexer inside a ValidLexer iterated directly
    vout,       \* the items that ValidLexer::next has answered with Some(..)
    vdone,      \* that ValidLexer::next has answered None
    parser,     \* a Parser: [tokens |-> the ValidLexer's Lexer, peek |-> Result<Token>,
                \*            pulled |-> the items consume has stored into peek, in
                \*            order, each with the index of its first byte]
    stack,      \* the parser's call stack, innermost frame last
    ret,        \* the value the last completed parser call returned
    called      \* the last direct call of a helper of the parser: its name, its
                \* argument and the parser it was made on

vars ==
    <<input, entry, lexer, rout, rdone, vlexer, vout, vdone, parser, stack, ret, called>>

lexVars == <<lexer, rout, rdone, vlexer, vout, vdone>>
parseVars == <<parser, stack, ret, called>>

----------------------------------------------------------------------------
(* Bounds of the model *)

\* longest input, in words of LexWords, handed to the lexers
MaxLexWords == 3
\* longest text, in words of BodyWords, that follows a problem line
MaxBodyWords == 2
\* longest formula text, in words of FormulaWords
MaxFormulaWords == 3
\* the parameter list of parse_formula_list is followed up to this length
MaxFormulas == 3

----------------------------------------------------------------------------
(* Bytes: u8::is_ascii_digit, is_ascii_alphanumeric, is_ascii_whitespace   *)

is_ascii_digit(b) == b >= 48 /\ b <= 57

is_ascii_alphabetic(b) == (b >= 65 /\ b <= 90) \/ (b >= 97 /\ b <= 122)

is_ascii_alphanumeric(b) == is_ascii_alphabetic(b) \/ is_ascii_digit(b)

\* space, \t, \n, form feed, \r
is_ascii_whitespace(b) == b \in {32, 9, 10, 12, 13}

----------------------------------------------------------------------------
(* Loc (crate::errors, not among the sources): a line and a column         *)

Loc(l, c) == [line |-> l, col |-> c]

bump_line(loc) == Loc(loc.line + 1, 0)

bump_col(loc) == Loc(loc.line, loc.col + 1)

----------------------------------------------------------------------------
(* u64 and i64.  A u64 is written in three limbs to the base 10^8, the most *)
(* significant first, so that the arithmetic keeps the width of 64 bits;   *)
(* an i64 is a sign and a magnitude (zero has the sign of the positives).  *)
(* The arithmetic wraps, as in a build without overflow checks.            *)

Base == 10 ^ 8

\* the u64 of a number below the base
U64(n) == <<0, 0, n>>

\* 2^64 = 18446744073709551616 and 2^63 = 9223372036854775808
Two64 == <<1844, 67440737, 9551616>>
Two63 == <<922, 33720368, 54775808>>

Less(a, b) ==
    \/ a[1] < b[1]
    \/ a[1] = b[1] /\ a[2] < b[2]
    \/ a[1] = b[1] /\ a[2] = b[2] /\ a[3] < b[3]

\* the limbs of l1 * Base^2 + l2 * Base + l3, carries propagated
Carried(l1, l2, l3) ==
    <<l1 + (l2 + l3 \div Base) \div Base, (l2 + l3 \div Base) % Base, l3 % Base>>

\* a - b, for b <= a
Minus(a, b) == Carried(a[1] - b[1] - 2, a[2] - b[2] + 2 * Base - 1, a[3] - b[3] + Base)

\* the value modulo 2^64
RECURSIVE wrapping(_)
wrapping(a) == IF Less(a, Two64) THEN a ELSE wrapping(Minus(a, Two64))

\* val *= 10
wrapping_mul10(val) == wrapping(Carried(val[1] * 10, val[2] * 10, val[3] * 10))

\* val += digit as u64
wrapping_add(val, digit) == wrapping(Carried(val[1], val[2], val[3] + digit))

I64(neg, mag) == [neg |-> neg, mag |-> mag]

\* val as i64: the values from 2^63 on are the negative val - 2^64
as_i64(val) ==
    IF Less(val, Two63) THEN I64(FALSE, val) ELSE I64(TRUE, Minus(Two64, val))

\* -(v), wrapping: zero and i64::MIN are their own negatives
wrapping_neg(v) ==
    IF v.mag = U64(0) \/ v = I64(TRUE, Two63) THEN v ELSE I64(~v.neg, v.mag)

\* the payload of the kinds that have none
NoVal == U64(0)

----------------------------------------------------------------------------
(* Tokens, errors and the items of the lexers (Option<Result<Token>>)      *)

\* Ok(Token::new(loc, kind)); val is the payload of Nat(val), NoVal otherwise
Token(loc, kind, val) == [ok |-> TRUE, loc |-> loc, kind |-> kind, val |-> val]

\* Err(ParseError::new(loc, kind))
ParseError(loc, kind) == [ok |-> FALSE, loc |-> loc, kind |-> kind, val |-> NoVal]

\* None
NoItem == [ok |-> FALSE, loc |-> Loc(0, 0), kind |-> "None", val |-> NoVal]

\* an is_relevant that lets every kind through
is_relevant_all(kind) == TRUE

is_relevant(kind) == kind # "Comment"

----------------------------------------------------------------------------
(* The raw lexer.  A Lexer is [idx, eof, buffer, peek, nloc, cloc]: idx    *)
(* bytes of the input have been yielded, eof records that input.next()     *)
(* has answered None.                                                      *)

LexerStart == [idx |-> 0, eof |-> FALSE, buffer |-> <<>>, peek |-> 0,
               nloc |-> Loc(1, 0), cloc |-> Loc(1, 0)]

\* bump_opt and bump: peek becomes the next byte, or \0 when there is none
bump(inp, lx) ==
    IF lx.idx < Len(inp)
    THEN LET peeked == inp[lx.idx + 1]
         IN  [lx EXCEPT !.idx = @ + 1,
                        !.peek = peeked,
                        !.cloc = IF peeked = 10 THEN bump_line(@) ELSE bump_col(@)]
    ELSE [lx EXCEPT !.peek = 0, !.eof = TRUE]

from(inp) == bump(inp, LexerStart)

mk_token(lx, kind, val) == Token(lx.nloc, kind, val)

mk_error(lx, kind) == ParseError(lx.nloc, kind)

\* the answer of a scan: the item and the lexer after it
tok(lx, kind, val) == [item |-> mk_token(lx, kind, val), lx |-> lx]

err(lx, kind) == [item |-> mk_error(lx, kind), lx |-> lx]

bump_tok(inp, lx, kind) == tok(bump(inp, lx), kind, NoVal)

RECURSIVE skip_line(_, _)
skip_line(inp, lx) ==
    IF lx.peek # 10 /\ lx.peek # 0 THEN skip_line(inp, bump(inp, lx)) ELSE lx

scan_comment(inp, lx) == tok(skip_line(inp, lx), "Comment", NoVal)

RECURSIVE unknown_keyword(_, _)
unknown_keyword(inp, lx) ==
    LET lx1 == bump(inp, lx)
    IN  IF is_ascii_alphanumeric(lx1.peek)
        THEN unknown_keyword(inp, lx1)
        ELSE err(lx1, "UnknownKeyword")

\* a match on the buffer that ignores the case of the letters
match_keyword_nocase(inp, lx) ==
    LET low == [i \in 1..Len(lx.buffer) |->
                   IF lx.buffer[i] >= 65 /\ lx.buffer[i] <= 90
                   THEN lx.buffer[i] + 32 ELSE lx.buffer[i]]
    IN  CASE low = <<99>> -> scan_comment(inp, lx)
          [] low = <<112>> -> tok(lx, "Ident(Problem)", NoVal)
          [] low = <<99, 110, 102>> -> tok(lx, "Ident(Cnf)", NoVal)
          [] low = <<115, 97, 116>> -> tok(lx, "Ident(Sat)", NoVal)
          [] low = <<115, 97, 116, 101>> -> tok(lx, "Ident(Sate)", NoVal)
          [] low = <<115, 97, 116, 120>> -> tok(lx, "Ident(Satx)", NoVal)
          [] low = <<115, 97, 116, 101, 120>> -> tok(lx, "Ident(Satex)", NoVal)
          [] low = <<120, 111, 114>> -> tok(lx, "Ident(Xor)", NoVal)
          [] OTHER -> err(lx, "UnknownKeyword")

\* the match on the buffer at the end of scan_keyword
match_keyword(inp, lx) ==
    CASE lx.buffer = <<99>> -> scan_comment(inp, lx)
      [] lx.buffer = <<112>> -> tok(lx, "Ident(Problem)", NoVal)
      [] lx.buffer = <<99, 110, 102>> -> tok(lx, "Ident(Cnf)", NoVal)
      [] lx.buffer = <<115, 97, 116>> -> tok(lx, "Ident(Sat)", NoVal)
      [] lx.buffer = <<115, 97, 116, 101>> -> tok(lx, "Ident(Sate)", NoVal)
      [] lx.buffer = <<115, 97, 116, 120>> -> tok(lx, "Ident(Satx)", NoVal)
      [] lx.buffer = <<115, 97, 116, 101, 120>> -> tok(lx, "Ident(Satex)", NoVal)
      [] lx.buffer = <<120, 111, 114>> -> tok(lx, "Ident(Xor)", NoVal)
      [] OTHER -> err(lx, "UnknownKeyword")

\* the while loop of scan_keyword, entered with the first byte in the buffer
RECURSIVE scan_keyword_loop(_, _)
scan_keyword_loop(inp, lx) ==
    LET lx1 == bump(inp, lx)
    IN  IF is_ascii_alphanumeric(lx1.peek)
        THEN IF Len(lx1.buffer) < 5
             THEN scan_keyword_loop(inp, [lx1 EXCEPT !.buffer = Append(@, lx1.peek)])
             ELSE unknown_keyword(inp, lx1)
        ELSE match_keyword(inp, lx1)

scan_keyword(inp, lx) == scan_keyword_loop(inp, [lx EXCEPT !.buffer = <<lx.peek>>])

\* the loop of scan_nat, on its variables s = [lx |-> self, val |-> val]:
\* let peeked = self.bump(); if it is no digit, break; val *= 10; val += digit
RECURSIVE scan_nat_loop(_, _)
scan_nat_loop(inp, s) ==
    LET lx1 == bump(inp, s.lx)
    IN  IF ~is_ascii_digit(lx1.peek)
        THEN tok(lx1, "Nat", s.val)
        ELSE scan_nat_loop(inp, [lx |-> lx1,
                                 val |-> wrapping_add(wrapping_mul10(s.val), lx1.peek - 48)])

scan_nat(inp, lx) == scan_nat_loop(inp, [lx |-> lx, val |-> U64(lx.peek - 48)])

RECURSIVE skip_whitespace(_, _)
skip_whitespace(inp, lx) ==
    IF is_ascii_whitespace(lx.peek) THEN skip_whitespace(inp, bump(inp, lx)) ELSE lx

\* an update_nloc that keeps the location of the previous token
update_nloc_stale(lx) == lx

update_nloc(lx) == [lx EXCEPT !.nloc = lx.cloc]

\* a dispatch that scans `0` as it scans the digits 1-9
dispatch_zero_as_nat(inp, lx) ==
    CASE is_ascii_alphabetic(lx.peek) -> scan_keyword(inp, lx)
      [] lx.peek >= 48 /\ lx.peek <= 57 -> scan_nat(inp, lx)
      [] lx.peek = 40 -> bump_tok(inp, lx, "Open")
      [] lx.peek = 41 -> bump_tok(inp, lx, "Close")
      [] lx.peek = 43 -> bump_tok(inp, lx, "Plus")
      [] lx.peek = 42 -> bump_tok(inp, lx, "Star")
      [] lx.peek = 61 -> bump_tok(inp, lx, "Eq")
      [] lx.peek = 45 -> bump_tok(inp, lx, "Minus")
      [] OTHER -> err(bump(inp, lx), "InvalidTokenStart")

\* the dispatch of next_token on the byte at the start of a token
dispatch(inp, lx) ==
    CASE is_ascii_alphabetic(lx.peek) -> scan_keyword(inp, lx)
      [] lx.peek >= 49 /\ lx.peek <= 57 -> scan_nat(inp, lx)
      [] lx.peek = 48 -> bump_tok(inp, lx, "Zero")
      [] lx.peek = 40 -> bump_tok(inp, lx, "Open")
      [] lx.peek = 41 -> bump_tok(inp, lx, "Close")
      [] lx.peek = 43 -> bump_tok(inp, lx, "Plus")
      [] lx.peek = 42 -> bump_tok(inp, lx, "Star")
      [] lx.peek = 61 -> bump_tok(inp, lx, "Eq")
      [] lx.peek = 45 -> bump_tok(inp, lx, "Minus")
      [] OTHER -> err(bump(inp, lx), "InvalidTokenStart")

\* Lexer::next.  start is the number of bytes yielded when the token starts,
\* that is the index in the input of the byte dispatched upon.
started(r, start) == [item |-> r.item, lx |-> r.lx, start |-> start]

next_token_at(inp, lx) ==
    IF lx.peek = 0
    THEN [item |-> NoItem, lx |-> lx, start |-> lx.idx]
    ELSE started(dispatch(inp, update_nloc(lx)), lx.idx)

next_token(inp, lx) == next_token_at(inp, skip_whitespace(inp, lx))

\* ValidLexer::next on the Lexer it wraps
RECURSIVE valid_next(_, _)
valid_next_match(inp, r) ==
    IF r.item = NoItem THEN r
    ELSE IF ~r.item.ok THEN r
    ELSE IF is_relevant(r.item.kind) THEN r
    ELSE valid_next(inp, r.lx)

valid_next(inp, lx) == valid_next_match(inp, next_token(inp, lx))

----------------------------------------------------------------------------
(* The inputs.  Words are byte strings; an input is a concatenation of     *)
(* words.                                                                  *)

RECURSIVE Texts(_, _)
Texts(words, n) ==
    IF n = 0 THEN {<<>>}
    ELSE LET shorter == Texts(words, n - 1)
         IN  shorter \cup {t \o w : t \in shorter, w \in words}

\* \n, \t, 0, 1, c, sat, ex, #, NUL, a non-ASCII byte, -, P
LexWords ==
    { <<10>>, <<9>>, <<48>>, <<49>>, <<99>>, <<115, 97, 116>>, <<101, 120>>,
      <<35>>, <<0>>, <<128>>, <<45>>, <<80>> }

LexInputs == Texts(LexWords, MaxLexWords)

\* the problem lines: "p cnf 2 1", "p cnf 1 2", "p cnf 1", "p sat 2", "p sate 2",
\* "p satx 2", "p satex 2", "p satq 3", "p xor 1", "p", "c x\np sat 2"
Headers ==
    { <<112, 32, 99, 110, 102, 32, 50, 32, 49>>,
      <<112, 32, 99, 110, 102, 32, 49, 32, 50>>,
      <<112, 32, 99, 110, 102, 32, 49>>,
      <<112, 32, 115, 97, 116, 32, 50>>,
      <<112, 32, 115, 97, 116, 101, 32, 50>>,
      <<112, 32, 115, 97, 116, 120, 32, 50>>,
      <<112, 32, 115, 97, 116, 101, 120, 32, 50>>,
      <<112, 32, 115, 97, 116, 113, 32, 51>>,
      <<112, 32, 120, 111, 114, 32, 49>>,
      <<112>>,
      <<99, 32, 120, 10, 112, 32, 115, 97, 116, 32, 50>> }

\* " 1", " 0", " -1", " -", " (", "#"
BodyWords ==
    { <<32, 49>>, <<32, 48>>, <<32, 45, 49>>, <<32, 45>>, <<32, 40>>, <<35>> }

HeaderInputs == {h \o b : h \in Headers, b \in Texts(BodyWords, MaxBodyWords)}

\* " 1", " -1", " -", " -(", " (", " )", " +(", " *(", " =(", " xor(", "#"
FormulaWords ==
    { <<32, 49>>, <<32, 45, 49>>, <<32, 45>>, <<32, 45, 40>>, <<32, 40>>, <<32, 41>>,
      <<32, 43, 40>>, <<32, 42, 40>>, <<32, 61, 40>>, <<32, 120, 111, 114, 40>>,
      <<35>> }

\* a formula text ends the input or is followed by one more token, " 1"
FormulaTails == { <<>>, <<32, 49>> }

FormulaInputs ==
    {f \o t : f \in Texts(FormulaWords, MaxFormulaWords), t \in FormulaTails}

\* the digit runs 2^63 - 1, 2^63, 2^64 - 1, 2^64, 2^64 + 1
NumberWords ==
    { <<57, 50, 50, 51, 51, 55, 50, 48, 51, 54, 56, 53, 52, 55, 55, 53, 56, 48, 55>>,
      <<57, 50, 50, 51, 51, 55, 50, 48, 51, 54, 56, 53, 52, 55, 55, 53, 56, 48, 56>>,
      <<49, 56, 52, 52, 54, 55, 52, 52, 48, 55, 51, 55, 48, 57, 53, 53, 49, 54, 49, 53>>,
      <<49, 56, 52, 52, 54, 55, 52, 52, 48, 55, 51, 55, 48, 57, 53, 53, 49, 54, 49, 54>>,
      <<49, 56, 52, 52, 54, 55, 52, 52, 48, 55, 51, 55, 48, 57, 53, 53, 49, 54, 49, 55>> }

\* a number or its negation, at the end of the input or before " 1"
NumberInputs ==
    {s \o w \o t : s \in {<<>>, <<45>>}, w \in NumberWords, t \in FormulaTails}

Inputs == LexInputs \cup HeaderInputs \cup FormulaInputs \cup NumberInputs

----------------------------------------------------------------------------
(* Values the parser builds.  Instance, Formula, Lit and Extensions are    *)
(* crate::items, not among the sources: only their constructors are used.  *)

NoRet == [tag |-> "none"]

Ok(v) == [tag |-> "ok", val |-> v]

Err(e) == [tag |-> "err", err |-> e]

\* Result<Token> as the parser sees a lexer item
Result(item) == IF item.ok THEN Ok(item) ELSE Err(item)

NONE == {}

EQ == {"Eq"}

XOR == {"Xor"}

\* Formula::lit(Lit::from_i64(v))
FormulaLit(v) == [t |-> "Lit", v |-> v]

FormulaParen(f) == [t |-> "Paren", f |-> f]

FormulaNeg(f) == [t |-> "Neg", f |-> f]

\* Formula::or, and, eq, xor on a parameter list
FormulaOp(op, fs) == [t |-> op, fs |-> fs]

InstanceCnf(num_vars, clauses) == [t |-> "Cnf", num_vars |-> num_vars, clauses |-> clauses]

InstanceSat(num_vars, extensions, formula) ==
    [t |-> "Sat", num_vars |-> num_vars, extensions |-> extensions, formula |-> formula]

----------------------------------------------------------------------------
(* The parser's helpers.  Each answers [res |-> its result, p |-> the      *)
(* parser after it].                                                       *)

peek_loc(p) == p.peek.loc

mk_err(p, kind) == ParseError(peek_loc(p), kind)

\* consume: peek becomes the next item of the ValidLexer, or UnexpectedEndOfFile
\* at the location of the old peek; the new peek is returned.  r is the answer
\* of self.tokens.next().
consumed(p, r, item) ==
    [res |-> Result(item),
     p |-> [tokens |-> r.lx, peek |-> item,
            pulled |-> Append(p.pulled, [item |-> item, start |-> r.start])]]

unwrap_or_eof(p, r) ==
    consumed(p, r, IF r.item = NoItem THEN mk_err(p, "UnexpectedEndOfFile") ELSE r.item)

consume(inp, p) == unwrap_or_eof(p, valid_next(inp, p.tokens))

\* expect(expected): expected is a kind and, for Nat, its value
expect(inp, p, kind, val) ==
    IF ~p.peek.ok THEN [res |-> Err(p.peek), p |-> p]
    ELSE IF p.peek.kind = kind /\ p.peek.val = val THEN consume(inp, p)
    ELSE [res |-> Err(mk_err(p, "UnexpectedToken")), p |-> p]

expect_nat(p) ==
    IF ~p.peek.ok THEN Err(p.peek)
    ELSE IF p.peek.kind = "Nat" THEN Ok(p.peek.val)
    ELSE Err(mk_err(p, "UnexpectedToken"))

\* the arms of parse_sat_extensions: { self.consume()?; Ok(extensions) }
extensions_of_swapped(kind) ==
    CASE kind = "Ident(Sat)" -> {}
      [] kind = "Ident(Sate)" -> {"Xor"}
      [] kind = "Ident(Satx)" -> {"Eq"}
      [] OTHER -> {"Eq", "Xor"}

extensions_of(kind) ==
    CASE kind = "Ident(Sat)" -> NONE
      [] kind = "Ident(Sate)" -> EQ
      [] kind = "Ident(Satx)" -> XOR
      [] OTHER -> EQ \cup XOR

consumed_extension(kind, c) ==
    IF c.res.tag = "err" THEN c ELSE [res |-> Ok(extensions_of(kind)), p |-> c.p]

parse_sat_extensions(inp, p) ==
    IF ~p.peek.ok THEN [res |-> Err(p.peek), p |-> p]
    ELSE IF p.peek.kind \in {"Ident(Sat)", "Ident(Sate)", "Ident(Satx)", "Ident(Satex)"}
    THEN consumed_extension(p.peek.kind, consume(inp, p))
    ELSE [res |-> Err(mk_err(p, "InvalidSatExtension")), p |-> p]

\* parse_clauses: the vector is allocated and returned empty
parse_clauses(p, num_clauses) == Ok(<<>>)

----------------------------------------------------------------------------
(* The call stack of the parser.  A frame is a function, the place in it   *)
(* (pc 0: entered, pc 1: its call has returned) and its locals.            *)

Frame(fn) == [fn |-> fn, pc |-> 0, formulas |-> <<>>, extensions |-> NONE, num_vars |-> NoVal]

Top == stack[Len(stack)]

Rest == SubSeq(stack, 1, Len(stack) - 1)

Running(fn) == stack # <<>> /\ Top.fn = fn

\* the function on top returns v
Returns(p, v) == [p |-> p, stack |-> Rest, ret |-> v]

\* the function on top, with locals as in frame, calls fn
Calls(p, frame, fn) ==
    [p |-> p, stack |-> Append(Append(Rest, [frame EXCEPT !.pc = 1]), Frame(fn)),
     ret |-> NoRet]

\* e?: the error of e is returned, else the function goes on as in next
Try(e, next) == IF e.res.tag = "err" THEN Returns(e.p, e.res) ELSE next

Apply(out) ==
    /\ parser' = out.p
    /\ stack' = out.stack
    /\ ret' = out.ret
    /\ UNCHANGED <<input, entry, lexVars, called>>

----------------------------------------------------------------------------
(* The parser, one action for each function                                *)

\* pub fn parse_dimacs(input) and Parser::parse_dimacs
CallParseDimacs ==
    /\ entry = "none"
    /\ entry' = "parse_dimacs"
    /\ stack' = <<Frame("parse_dimacs")>>
    /\ UNCHANGED <<input, lexVars, parser, ret, called>>

\* self.consume()?; self.parse_header()
parse_dimacs_consumed(c) == Try(c, Calls(c.p, Top, "parse_header"))

ParseDimacs ==
    /\ Running("parse_dimacs")
    /\ Apply(IF Top.pc = 0 THEN parse_dimacs_consumed(consume(input, parser))
             ELSE Returns(parser, ret))

\* the match of parse_header on self.peek?.kind()
parse_header_match(p) ==
    IF ~p.peek.ok THEN Returns(p, Err(p.peek))
    ELSE IF p.peek.kind = "Ident(Cnf)" THEN Calls(p, Top, "parse_cnf_header")
    ELSE IF p.peek.kind \in {"Ident(Sat)", "Ident(Sate)", "Ident(Satx)", "Ident(Satex)"}
    THEN Calls(p, Top, "parse_sat_header")
    ELSE Returns(p, Err(mk_err(p, "UnexpectedToken")))

parse_header_expected(e) == Try(e, parse_header_match(e.p))

ParseHeader ==
    /\ Running("parse_header")
    /\ Apply(IF Top.pc = 0
             THEN parse_header_expected(expect(input, parser, "Ident(Problem)", NoVal))
             ELSE Returns(parser, ret))

\* Ok(Instance::cnf(num_vars, self.parse_clauses(num_clauses)?))
cnf_instance(p, num_vars, clauses) ==
    IF clauses.tag = "err" THEN Returns(p, clauses)
    ELSE Returns(p, Ok(InstanceCnf(num_vars, clauses.val)))

\* let num_vars = self.expect_nat()?; let num_clauses = self.expect_nat()?;
parse_cnf_header_nats(p, num_vars, num_clauses) ==
    IF num_vars.tag = "err" THEN Returns(p, num_vars)
    ELSE IF num_clauses.tag = "err" THEN Returns(p, num_clauses)
    ELSE cnf_instance(p, num_vars.val, parse_clauses(p, num_clauses.val))

parse_cnf_header_expected(e) ==
    Try(e, parse_cnf_header_nats(e.p, expect_nat(e.p), expect_nat(e.p)))

ParseCnfHeader ==
    /\ Running("parse_cnf_header")
    /\ Apply(parse_cnf_header_expected(expect(input, parser, "Ident(Cnf)", NoVal)))

\* let num_vars = self.expect_nat()?; then self.parse_formula() is called
parse_sat_header_nat(p, extensions, num_vars) ==
    IF num_vars.tag = "err" THEN Returns(p, num_vars)
    ELSE Calls(p, [Top EXCEPT !.extensions = extensions, !.num_vars = num_vars.val],
               "parse_formula")

parse_sat_header_extensions(x) ==
    Try(x, parse_sat_header_nat(x.p, x.res.val, expect_nat(x.p)))

ParseSatHeader ==
    /\ Running("parse_sat_header")
    /\ Apply(IF Top.pc = 0
             THEN parse_sat_header_extensions(parse_sat_extensions(input, parser))
             ELSE IF ret.tag = "err" THEN Returns(parser, ret)
             ELSE Returns(parser, Ok(InstanceSat(Top.num_vars, Top.extensions, ret.val))))

\* the harness of the formula parser: a parser whose lookahead holds the first
\* item of the input (consume) enters parse_formula
CallParseFormula ==
    /\ entry = "none"
    /\ entry' = "parse_formula"
    /\ parser' = consume(input, parser).p
    /\ stack' = <<Frame("parse_formula")>>
    /\ UNCHANGED <<input, lexVars, ret, called>>

\* the match of parse_formula on tok.kind()
parse_formula_match(p) ==
    CASE p.peek.kind = "Nat" -> Returns(p, Ok(FormulaLit(as_i64(p.peek.val))))
      [] p.peek.kind = "Open" -> Calls(p, Top, "parse_paren_formula")
      [] p.peek.kind = "Plus" -> Calls(p, Top, "parse_or_formula")
      [] p.peek.kind = "Star" -> Calls(p, Top, "parse_and_formula")
      [] p.peek.kind = "Minus" -> Calls(p, Top, "parse_neg_formula")
      [] p.peek.kind = "Eq" -> Calls(p, Top, "parse_eq_formula")
      [] p.peek.kind = "Ident(Xor)" -> Calls(p, Top, "parse_xor_formula")
      [] OTHER -> Returns(p, Err(mk_err(p, "UnexpectedToken")))

ParseFormula ==
    /\ Running("parse_formula")
    /\ Apply(IF Top.pc = 0
             THEN IF ~parser.peek.ok THEN Returns(parser, Err(parser.peek))
                  ELSE parse_formula_match(parser)
             ELSE Returns(parser, ret))

\* while self.peek?.kind() != TokenKind::Close { formulas.push(self.parse_formula()?) }
parse_formula_list_test(p, formulas) ==
    IF ~p.peek.ok THEN Returns(p, Err(p.peek))
    ELSE IF p.peek.kind # "Close"
    THEN Calls(p, [Top EXCEPT !.formulas = formulas], "parse_formula")
    ELSE Returns(p, Ok(formulas))

\* at pc 1 the formula returned is pushed, then the test is made again
ParseFormulaList ==
    /\ Running("parse_formula_list")
    /\ Top.pc = 1 => Len(Top.formulas) < MaxFormulas
    /\ Apply(IF Top.pc = 0 THEN parse_formula_list_test(parser, Top.formulas)
             ELSE IF ret.tag = "err" THEN Returns(parser, ret)
             ELSE parse_formula_list_test(parser, Append(Top.formulas, ret.val)))

\* self.expect(Close)?; Ok(value)
expected_close(e, value) == Try(e, Returns(e.p, Ok(value)))

\* self.expect(Open)?; then fn is called
expected_open(e, fn) == Try(e, Calls(e.p, Top, fn))

ParseFormulaParams ==
    /\ Running("parse_formula_params")
    /\ Apply(IF Top.pc = 0
             THEN expected_open(expect(input, parser, "Open", NoVal), "parse_formula_list")
             ELSE IF ret.tag = "err" THEN Returns(parser, ret)
             ELSE expected_close(expect(input, parser, "Close", NoVal), ret.val))

ParseParenFormula ==
    /\ Running("parse_paren_formula")
    /\ Apply(IF Top.pc = 0
             THEN expected_open(expect(input, parser, "Open", NoVal), "parse_formula")
             ELSE IF ret.tag = "err" THEN Returns(parser, ret)
             ELSE expected_close(expect(input, parser, "Close", NoVal),
                                 FormulaParen(ret.val)))

\* the Nat arm of parse_neg_formula:
\* self.expect(Nat(val))?; Ok(Formula::lit(Lit::from_i64(-(val as i64))))
neg_literal(e, val) == Try(e, Returns(e.p, Ok(FormulaLit(wrapping_neg(as_i64(val))))))

\* let tok = self.peek?; match tok.kind()
parse_neg_formula_match(p) ==
    IF ~p.peek.ok THEN Returns(p, Err(p.peek))
    ELSE IF p.peek.kind = "Open"
    THEN expected_open(expect(input, p, "Open", NoVal), "parse_formula")
    ELSE IF p.peek.kind = "Nat"
    THEN neg_literal(expect(input, p, "Nat", p.peek.val), p.peek.val)
    ELSE Returns(p, Err(mk_err(p, "UnexpectedToken")))

parse_neg_formula_expected(m) == Try(m, parse_neg_formula_match(m.p))

ParseNegFormula ==
    /\ Running("parse_neg_formula")
    /\ Apply(IF Top.pc = 0
             THEN parse_neg_formula_expected(expect(input, parser, "Minus", NoVal))
             ELSE IF ret.tag = "err" THEN Returns(parser, ret)
             ELSE expected_close(expect(input, parser, "Close", NoVal),
                                 FormulaNeg(ret.val)))

\* parse_or_formula, parse_and_formula, parse_eq_formula, parse_xor_formula:
\* expect the operator, then the parameter list
parse_op_formula(kind, op) ==
    IF Top.pc = 0
    THEN expected_open(expect(input, parser, kind, NoVal), "parse_formula_params")
    ELSE IF ret.tag = "err" THEN Returns(parser, ret)
    ELSE Returns(parser, Ok(FormulaOp(op, ret.val)))

ParseOrFormula == Running("parse_or_formula") /\ Apply(parse_op_formula("Plus", "Or"))

ParseAndFormula == Running("parse_and_formula") /\ Apply(parse_op_formula("Star", "And"))

ParseEqFormula == Running("parse_eq_formula") /\ Apply(parse_op_formula("Eq", "Eq"))

ParseXorFormula ==
    Running("parse_xor_formula") /\ Apply(parse_op_formula("Ident(Xor)", "Xor"))

----------------------------------------------------------------------------
(* The helpers called directly: a client that holds a Parser calls consume *)
(* and expect on it, in any order                                          *)

\* Parser::from
ParserStart(inp) ==
    [tokens |-> from(inp), peek |-> ParseError(Loc(0, 0), "EmptyTokenStream"),
     pulled |-> <<>>]

NoCall == [fn |-> "none", kind |-> "none", val |-> NoVal, before |-> ParserStart(input)]

\* the kinds expect is asked for: Minus, Nat(1)
ExpectKinds == { [kind |-> "Minus", val |-> NoVal], [kind |-> "Nat", val |-> U64(1)] }

\* the call has answered c
Called(fn, k, c) ==
    /\ entry' = "expect"
    /\ called' = [fn |-> fn, kind |-> k.kind, val |-> k.val, before |-> parser]
    /\ parser' = c.p
    /\ ret' = c.res
    /\ UNCHANGED <<input, lexVars, stack>>

\* self.consume(), while the end of the tokens has not been met
CallConsume ==
    /\ entry \in {"none", "expect"}
    /\ parser.peek.kind # "UnexpectedEndOfFile"
    /\ Called("consume", [kind |-> "none", val |-> NoVal], consume(input, parser))

\* self.expect(expected)
CallExpect ==
    /\ entry = "expect"
    /\ \E k \in ExpectKinds : Called("expect", k, expect(input, parser, k.kind, k.val))

NextParse ==
    \/ CallParseDimacs
    \/ CallConsume
    \/ CallExpect
    \/ ParseDimacs
    \/ ParseHeader
    \/ ParseCnfHeader
    \/ ParseSatHeader
    \/ CallParseFormula
    \/ ParseFormula
    \/ ParseFormulaList
    \/ ParseFormulaParams
    \/ ParseParenFormula
    \/ ParseNegFormula
    \/ ParseOrFormula
    \/ ParseAndFormula
    \/ ParseEqFormula
    \/ ParseXorFormula

----------------------------------------------------------------------------
(* The state after construction: Lexer::from, ValidLexer::from,            *)
(* Parser::from on the same input                                          *)

Init ==
    /\ input \in Inputs
    /\ entry = "none"
    /\ lexer = from(input)
    /\ rout = <<>>
    /\ rdone = FALSE
    /\ vlexer = from(input)
    /\ vout = <<>>
    /\ vdone = FALSE
    /\ parser = ParserStart(input)
    /\ stack = <<>>
    /\ ret = NoRet
    /\ called = NoCall

----------------------------------------------------------------------------
(* Iterating the lexers directly                                           *)

\* one call of Lexer::next on the raw lexer
RawNext ==
    /\ entry \in {"none", "Lexer"}
    /\ ~rdone
    /\ LET r == next_token(input, lexer)
       IN  /\ lexer' = r.lx
           /\ IF r.item = NoItem
              THEN rdone' = TRUE /\ rout' = rout
              ELSE rdone' = FALSE /\ rout' = Append(rout, r)
    /\ entry' = "Lexer"
    /\ UNCHANGED <<input, vlexer, vout, vdone, parseVars>>

\* one call of ValidLexer::next
ValidNext ==
    /\ entry \in {"none", "ValidLexer"}
    /\ ~vdone
    /\ LET r == valid_next(input, vlexer)
       IN  /\ vlexer' = r.lx
           /\ IF r.item = NoItem
              THEN vdone' = TRUE /\ vout' = vout
              ELSE vdone' = FALSE /\ vout' = Append(vout, r)
    /\ entry' = "ValidLexer"
    /\ UNCHANGED <<input, lexer, rout, rdone, parseVars>>

Next ==
    \/ RawNext
    \/ ValidNext
    \/ NextParse

Spec == Init /\ [][Next]_vars


----------------------------------------------------------------------------
(* What the properties are stated with: the input read directly            *)

\* the calls of Lexer::next on a fresh raw lexer, up to the first None
RECURSIVE RawCallsFrom(_, _)
RawCallsFrom(inp, lx) ==
    LET r == next_token(inp, lx)
    IN  IF r.item = NoItem THEN <<>> ELSE <<r>> \o RawCallsFrom(inp, r.lx)

RawCalls(inp) == RawCallsFrom(inp, from(inp))

Items(calls) == [k \in 1..Len(calls) |-> calls[k].item]

IsComment(call) == call.item.ok /\ call.item.kind = "Comment"

NotComment(call) == ~IsComment(call)

IsPrefix(s, t) == Len(s) <= Len(t) /\ s = SubSeq(t, 1, Len(s))

\* line and column of the i-th byte: 1 + the newlines before it, and the bytes
\* of its line up to and including it
LineOf(inp, i) == 1 + Cardinality({j \in 1..(i - 1) : inp[j] = 10})

LineStart(inp, i) ==
    CHOOSE j \in 0..(i - 1) :
        /\ j = 0 \/ inp[j] = 10
        /\ \A m \in (j + 1)..(i - 1) : inp[m] # 10

ColOf(inp, i) == i - LineStart(inp, i)

PosOf(inp, i) == Loc(LineOf(inp, i), ColOf(inp, i))

\* the last byte of the run of alphanumeric bytes, of digits, that starts at i
RECURSIVE AlnumRunEnd(_, _)
AlnumRunEnd(inp, i) ==
    IF i < Len(inp) /\ is_ascii_alphanumeric(inp[i + 1]) THEN AlnumRunEnd(inp, i + 1) ELSE i

RECURSIVE DigitRunEnd(_, _)
DigitRunEnd(inp, i) ==
    IF i < Len(inp) /\ is_ascii_digit(inp[i + 1]) THEN DigitRunEnd(inp, i + 1) ELSE i

\* the lexer has consumed the bytes up to j and nothing after: its lookahead
\* is byte j + 1, or \0 when byte j is the last one
LooksPast(inp, lx, j) ==
    IF j < Len(inp)
    THEN lx.idx = j + 1 /\ lx.peek = inp[j + 1] /\ ~lx.eof
    ELSE lx.idx = Len(inp) /\ lx.peek = 0 /\ lx.eof

NulFree(inp) == \A i \in 1..Len(inp) : inp[i] # 0

\* the first byte at or after i that is no whitespace (Len + 1: none)
RECURSIVE FirstInk(_, _)
FirstInk(inp, i) ==
    IF i <= Len(inp) /\ is_ascii_whitespace(inp[i]) THEN FirstInk(inp, i + 1) ELSE i

Done(e) == entry = e /\ stack = <<>>

----------------------------------------------------------------------------
(* C4: the ValidLexer's items are the raw lexer's items without the        *)
(* Ok(Comment) ones                                                        *)

\* C4: what ValidLexer::next has answered so far is a prefix of the raw lexer's
\* sequence on the same input with exactly the comments removed (same items, same
\* order, same positions and kinds), and it ends with the whole of it; the raw
\* lexer iterated directly answers that raw sequence.
C4_FilterOnlyComments ==
    LET raw == RawCalls(input)
        kept == Items(SelectSeq(raw, NotComment))
    IN  /\ IsPrefix(Items(vout), kept)
        /\ vdone => Items(vout) = kept
        /\ IsPrefix(Items(rout), Items(raw))
        /\ rdone => Items(rout) = Items(raw)

\* the ValidLexer has ended on an input with a comment, having answered a token
\* that follows the comment and an error
C4_Witness ==
    /\ vdone
    /\ \E k \in 1..Len(RawCalls(input)) :
          /\ IsComment(RawCalls(input)[k])
          /\ \E m \in 1..Len(vout) : vout[m].item.ok /\ vout[m].start > RawCalls(input)[k].start
    /\ \E m \in 1..Len(vout) : ~vout[m].item.ok

----------------------------------------------------------------------------
(* C5: the position of an item is that of its first byte                   *)

\* where the k-th item of the raw lexer starts: the first byte that is no
\* whitespace after what the call before it has consumed
FirstByte(k) == FirstInk(input, IF k = 1 THEN 1 ELSE rout[k - 1].lx.idx)

\* C5: every item the raw lexer emits (token, comment or error) carries line =
\* 1 + the number of newlines before its first byte and column = the number of
\* bytes of that line up to and including its first byte.
C5_StartPosition ==
    \A k \in 1..Len(rout) :
        /\ rout[k].start = FirstByte(k)
        /\ rout[k].item.loc = PosOf(input, FirstByte(k))

\* an item that is not the first one, on a later line, after other bytes of that line
C5_Witness ==
    \E k \in 2..Len(rout) :
        /\ rout[k].item.loc.line >= 2
        /\ rout[k].item.loc.col >= 2
        /\ rout[k].lx.idx > rout[k].start + 1

----------------------------------------------------------------------------
(* C6: a byte that starts no token                                         *)

InvalidStart(b) ==
    /\ ~is_ascii_alphanumeric(b)
    /\ ~is_ascii_whitespace(b)
    /\ b \notin {40, 41, 43, 45, 42, 61}

\* the lookahead of the lexer is a byte of the input (not the \0 of the end)
AtByte(lx) == lx.idx >= 1 /\ ~lx.eof

\* C6: every byte met at a token start that is no letter, digit, whitespace or
\* one of ( ) + - * = (NUL included) is answered with one InvalidTokenStart at
\* its position, only that byte is consumed, and the sequence does not end there.
C6_InvalidStartIsError ==
    /\ \A k \in 1..Len(rout) :
          InvalidStart(input[rout[k].start]) =>
              /\ rout[k].item = ParseError(PosOf(input, rout[k].start), "InvalidTokenStart")
              /\ LooksPast(input, rout[k].lx, rout[k].start)
    /\ rdone => ~(AtByte(lexer) /\ InvalidStart(lexer.peek))

\* the part of C6 that the lexer keeps: the bytes other than NUL
C6_NonNulInvalidStart ==
    /\ \A k \in 1..Len(rout) :
          InvalidStart(input[rout[k].start]) =>
              /\ rout[k].item = ParseError(PosOf(input, rout[k].start), "InvalidTokenStart")
              /\ LooksPast(input, rout[k].lx, rout[k].start)
    /\ rdone => ~(AtByte(lexer) /\ InvalidStart(lexer.peek) /\ lexer.peek # 0)

----------------------------------------------------------------------------
(* C8: a run of letters and digits that is no keyword                      *)

\* c, p, xor, cnf, sat, satx, sate, satex
KnownSpellings ==
    { <<99>>, <<112>>, <<120, 111, 114>>, <<99, 110, 102>>, <<115, 97, 116>>,
      <<115, 97, 116, 120>>, <<115, 97, 116, 101>>, <<115, 97, 116, 101, 120>> }

AlnumRun(inp, i) == SubSeq(inp, i, AlnumRunEnd(inp, i))

\* byte i starts a maximal run of letters and digits, with a letter, that is
\* none of the known spellings
StartsUnknownRun(inp, i) ==
    /\ is_ascii_alphabetic(inp[i])
    /\ i = 1 \/ ~is_ascii_alphanumeric(inp[i - 1])
    /\ AlnumRun(inp, i) \notin KnownSpellings

\* the call answered UnknownKeyword at byte i, having consumed the run and no more
AnswersUnknownKeyword(call, i) ==
    /\ call.start = i
    /\ call.item = ParseError(PosOf(input, i), "UnknownKeyword")
    /\ LooksPast(input, call.lx, AlnumRunEnd(input, i))

\* parse_dimacs returns the UnknownKeyword error it has pulled
ReturnsPulledUnknownKeyword ==
    Done("parse_dimacs") =>
        \A k \in 1..Len(parser.pulled) :
            (~parser.pulled[k].item.ok /\ parser.pulled[k].item.kind = "UnknownKeyword") =>
                /\ is_ascii_alphabetic(input[parser.pulled[k].start])
                /\ AlnumRun(input, parser.pulled[k].start) \notin KnownSpellings
                /\ ret = Err(ParseError(PosOf(input, parser.pulled[k].start),
                                        "UnknownKeyword"))

\* C8 as stated: once the raw lexer has ended, every maximal run of letters and
\* digits of the input that begins with a letter and is no known spelling has
\* been answered with one UnknownKeyword at its first byte (inputs without NUL).
C8_EveryRunIsUnknownKeyword ==
    /\ (rdone /\ NulFree(input)) =>
          \A i \in 1..Len(input) :
              StartsUnknownRun(input, i) =>
                  \E k \in 1..Len(rout) : AnswersUnknownKeyword(rout[k], i)
    /\ ReturnsPulledUnknownKeyword

\* C8, amended: every run of letters and digits that the raw lexer meets at a
\* token start, that begins with a letter and is no known spelling, whatever its
\* length and case, is answered with one UnknownKeyword at its first byte, the
\* run consumed and nothing after it; parse_dimacs returns such an error it pulls.
C8_UnknownKeywordAtTokenStart ==
    /\ \A k \in 1..Len(rout) :
          (/\ is_ascii_alphabetic(input[rout[k].start])
           /\ AlnumRun(input, rout[k].start) \notin KnownSpellings)
            => AnswersUnknownKeyword(rout[k], rout[k].start)
    /\ ReturnsPulledUnknownKeyword

\* a run longer than the buffer of 5 bytes, met after an earlier item, has been answered
C8_Witness ==
    \E k \in 2..Len(rout) :
        /\ AnswersUnknownKeyword(rout[k], rout[k].start)
        /\ AlnumRunEnd(input, rout[k].start) - rout[k].start >= 5

\* parse_dimacs has returned the UnknownKeyword of the second item it pulled
C8_ParserWitness ==
    /\ Done("parse_dimacs")
    /\ Len(parser.pulled) = 2
    /\ ret.tag = "err" /\ ret.err.kind = "UnknownKeyword"

----------------------------------------------------------------------------
(* C9: digit runs                                                          *)

RECURSIVE DecimalValue(_, _, _)
DecimalValue(inp, i, j) ==
    IF j < i THEN U64(0)
    ELSE LET v == DecimalValue(inp, i, j - 1)
         IN  Carried(10 * v[1], 10 * v[2], 10 * v[3] + (inp[j] - 48))

\* the decimal value of the digit run that starts at byte i, as a number
RunValue(i) == DecimalValue(input, i, DigitRunEnd(input, i))

\* the decimal value of the digit run of the k-th token of the text
TextValue(k) == RunValue(SelectSeq(RawCalls(input), NotComment)[k].start)

\* C9 as stated: once the raw lexer has ended, every digit run of the input that
\* starts with `0` has been answered with Zero for that `0` (inputs without NUL,
\* runs that no letter or digit precedes).
C9_EveryZeroRunIsZero ==
    (rdone /\ NulFree(input)) =>
        \A i \in 1..Len(input) :
            (input[i] = 48 /\ (i = 1 \/ ~is_ascii_alphanumeric(input[i - 1]))) =>
                \E k \in 1..Len(rout) :
                    /\ rout[k].start = i
                    /\ rout[k].item = Token(PosOf(input, i), "Zero", NoVal)
                    /\ LooksPast(input, rout[k].lx, i)

\* C9, amended: a `0` the raw lexer meets at a token start is answered with Zero
\* for that single byte, and the digits after it are lexed from the next byte
\* on as tokens of their own; a Nat comes only from a run whose first digit is
\* 1-9 and leaves the byte that ends the run as the lookahead.
C9_ZeroAtTokenStart ==
    \A k \in 1..Len(rout) :
        /\ input[rout[k].start] = 48 =>
              /\ rout[k].item = Token(PosOf(input, rout[k].start), "Zero", NoVal)
              /\ LooksPast(input, rout[k].lx, rout[k].start)
              /\ (/\ k < Len(rout)
                  /\ rout[k].start < Len(input)
                  /\ is_ascii_digit(input[rout[k].start + 1]))
                    => rout[k + 1].start = rout[k].start + 1
        /\ (rout[k].item.ok /\ rout[k].item.kind = "Nat") =>
              /\ input[rout[k].start] >= 49 /\ input[rout[k].start] <= 57
              /\ LooksPast(input, rout[k].lx, DigitRunEnd(input, rout[k].start))

\* `0` then a digit 1-9: Zero, then a Nat that starts at the next byte and stops
\* before a byte that is no digit
C9_Witness ==
    \E k \in 1..(Len(rout) - 1) :
        /\ rout[k].item.kind = "Zero"
        /\ rout[k + 1].item.kind = "Nat"
        /\ rout[k + 1].start = rout[k].start + 1
        /\ ~rout[k + 1].lx.eof

----------------------------------------------------------------------------
(* The text of the input as the format reads it: the items without the     *)
(* comments, and the instance that a valid text describes                  *)

Toks == Items(SelectSeq(RawCalls(input), NotComment))

AllOk(toks) == \A k \in 1..Len(toks) : toks[k].ok

IsTok(toks, k, kind) == k >= 1 /\ k <= Len(toks) /\ toks[k].ok /\ toks[k].kind = kind

SatKeywords == {"Ident(Sat)", "Ident(Sate)", "Ident(Satx)", "Ident(Satex)"}

\* the clauses written from token i on: literals, each a Nat with an optional
\* Minus before it, every clause closed by Zero
RECURSIVE RefClauses(_, _, _, _)
RefClauses(toks, i, cur, acc) ==
    IF i > Len(toks) THEN [ok |-> cur = <<>>, clauses |-> acc]
    ELSE IF IsTok(toks, i, "Zero") THEN RefClauses(toks, i + 1, <<>>, Append(acc, cur))
    ELSE IF IsTok(toks, i, "Nat")
    THEN RefClauses(toks, i + 1, Append(cur, I64(FALSE, toks[i].val)), acc)
    ELSE IF IsTok(toks, i, "Minus") /\ IsTok(toks, i + 1, "Nat")
    THEN RefClauses(toks, i + 2, Append(cur, I64(TRUE, toks[i + 1].val)), acc)
    ELSE [ok |-> FALSE, clauses |-> <<>>]

\* `p cnf V N` and then N clauses
ValidCnfText(toks) ==
    /\ AllOk(toks)
    /\ IsTok(toks, 1, "Ident(Problem)") /\ IsTok(toks, 2, "Ident(Cnf)")
    /\ IsTok(toks, 3, "Nat") /\ IsTok(toks, 4, "Nat")
    /\ RefClauses(toks, 5, <<>>, <<>>).ok
    /\ U64(Len(RefClauses(toks, 5, <<>>, <<>>).clauses)) = toks[4].val

NoFormula == [ok |-> FALSE, f |-> FormulaLit(I64(FALSE, U64(0))), next |-> 0]

OpOf(kind) ==
    CASE kind = "Plus" -> "Or"
      [] kind = "Star" -> "And"
      [] kind = "Eq" -> "Eq"
      [] OTHER -> "Xor"

\* the formula written from token i on, by the grammar of the format, and the
\* token after it
RECURSIVE RefFormula(_, _)
RECURSIVE RefList(_, _, _)
RefFormula(toks, i) ==
    IF i > Len(toks) \/ ~toks[i].ok THEN NoFormula
    ELSE IF toks[i].kind = "Nat"
    THEN [ok |-> TRUE, f |-> FormulaLit(I64(FALSE, toks[i].val)), next |-> i + 1]
    ELSE IF toks[i].kind = "Minus" /\ IsTok(toks, i + 1, "Nat")
    THEN [ok |-> TRUE, f |-> FormulaLit(I64(TRUE, toks[i + 1].val)), next |-> i + 2]
    ELSE IF toks[i].kind \in {"Open", "Minus"}
    THEN LET open == IF toks[i].kind = "Open" THEN i ELSE i + 1
             r == RefFormula(toks, open + 1)
         IN  IF IsTok(toks, open, "Open") /\ r.ok /\ IsTok(toks, r.next, "Close")
             THEN [ok |-> TRUE,
                   f |-> IF toks[i].kind = "Open" THEN FormulaParen(r.f)
                         ELSE FormulaNeg(r.f),
                   next |-> r.next + 1]
             ELSE NoFormula
    ELSE IF toks[i].kind \in {"Plus", "Star", "Eq", "Ident(Xor)"}
    THEN LET l == RefList(toks, i + 2, <<>>)
         IN  IF IsTok(toks, i + 1, "Open") /\ l.ok
             THEN [ok |-> TRUE, f |-> FormulaOp(OpOf(toks[i].kind), l.f), next |-> l.next]
             ELSE NoFormula
    ELSE NoFormula

RefList(toks, i, acc) ==
    IF i > Len(toks) THEN NoFormula
    ELSE IF IsTok(toks, i, "Close") THEN [ok |-> TRUE, f |-> acc, next |-> i + 1]
    ELSE LET r == RefFormula(toks, i)
         IN  IF r.ok THEN RefList(toks, r.next, Append(acc, r.f)) ELSE NoFormula

\* `p <sat-keyword> V` and then one formula
ValidSatText(toks) ==
    /\ AllOk(toks)
    /\ IsTok(toks, 1, "Ident(Problem)")
    /\ Len(toks) >= 2 /\ toks[2].kind \in SatKeywords
    /\ IsTok(toks, 3, "Nat")
    /\ RefFormula(toks, 4).ok
    /\ RefFormula(toks, 4).next = Len(toks) + 1

\* the extension set each keyword stands for
ExtensionSet(kind) ==
    CASE kind = "Ident(Sat)" -> {}
      [] kind = "Ident(Sate)" -> {"Eq"}
      [] kind = "Ident(Satx)" -> {"Xor"}
      [] kind = "Ident(Satex)" -> {"Eq", "Xor"}
      [] OTHER -> {"none"}

----------------------------------------------------------------------------
(* C1, C2, C3, C10: parse_dimacs                                           *)

\* C1: for a valid CNF text `p cnf V N` with N clauses, parse_dimacs returns the
\* CNF instance with num_vars = V whose clauses are the N source clauses, each
\* with its literals in source order with their signs.
C1_CnfClausesAsWritten ==
    (Done("parse_dimacs") /\ ValidCnfText(Toks)) =>
        ret = Ok(InstanceCnf(Toks[3].val, RefClauses(Toks, 5, <<>>, <<>>).clauses))

\* C2: for a valid SAT text `p <sat-keyword> V <formula>`, parse_dimacs returns
\* the SAT instance with num_vars = V whose formula is the tree of the formula
\* written after V.
C2_SatFormulaAsWritten ==
    (Done("parse_dimacs") /\ ValidSatText(Toks)) =>
        ret = Ok(InstanceSat(Toks[3].val, ExtensionSet(Toks[2].kind),
                             RefFormula(Toks, 4).f))

\* C3: a SAT instance that parse_dimacs returns was read from a header whose
\* keyword is sat, sate, satx or satex, and its extension set is the one of that
\* keyword: {}, {Eq}, {Xor}, {Eq, Xor}.
C3_ExtensionsByKeyword ==
    (Done("parse_dimacs") /\ ret.tag = "ok" /\ ret.val.t = "Sat") =>
        /\ Len(parser.pulled) >= 2
        /\ parser.pulled[2].item = Toks[2]
        /\ Toks[2].ok /\ Toks[2].kind \in SatKeywords
        /\ ret.val.extensions = ExtensionSet(Toks[2].kind)

\* parse_dimacs has returned a SAT instance for a satex header, with both extensions
C3_Witness ==
    /\ Done("parse_dimacs")
    /\ ret.tag = "ok" /\ ret.val.t = "Sat"
    /\ Toks[2].kind = "Ident(Satex)"
    /\ ret.val.extensions = {"Eq", "Xor"}

LexicalError(item) == ~item.ok /\ item.kind \in {"InvalidTokenStart", "UnknownKeyword"}

\* C10: parse_dimacs returns an instance only for an input that is error-free
\* throughout (no lexical error anywhere, a valid CNF or SAT text), and a
\* lexical error it returns is the first one of the input, unmodified.
C10_FailFastWholeInput ==
    Done("parse_dimacs") =>
        /\ ret.tag = "ok" =>
              /\ AllOk(Toks)
              /\ ValidCnfText(Toks) \/ ValidSatText(Toks)
        /\ (ret.tag = "err" /\ LexicalError(ret.err)) =>
              \E k \in 1..Len(Toks) :
                  /\ Toks[k] = ret.err
                  /\ \A j \in 1..(k - 1) : Toks[j].ok

\* the part of C10 that parse_dimacs keeps: over the items it has pulled
C10_FailFastOverPulled ==
    Done("parse_dimacs") =>
        /\ ret.tag = "ok" => \A k \in 1..Len(parser.pulled) : parser.pulled[k].item.ok
        /\ \A k \in 1..Len(parser.pulled) :
              ~parser.pulled[k].item.ok => ret = Err(parser.pulled[k].item)

----------------------------------------------------------------------------
(* C7: the formula parser on a Minus                                       *)

\* the token after the Minus is not a number beyond the i64 (those are C13's)
NegationInRange == IsTok(Toks, 2, "Nat") => Less(TextValue(2), Two63)

\* C7: parse_formula entered with the lookahead Minus: when the next token is
\* Nat(v) it returns the literal -v; when it is Open and a formula and Close
\* follow, the negation of that formula; when it is any other token, or the
\* tokens have ended, an UnexpectedToken error.
C7_NegationByNextToken ==
    (Done("parse_formula") /\ IsTok(Toks, 1, "Minus") /\ NegationInRange) =>
        IF IsTok(Toks, 2, "Nat") THEN ret = Ok(FormulaLit(I64(TRUE, Toks[2].val)))
        ELSE IF IsTok(Toks, 2, "Open")
        THEN (RefFormula(Toks, 1).ok) => ret = Ok(RefFormula(Toks, 1).f)
        ELSE IF Len(Toks) = 1 \/ Toks[2].ok
        THEN ret.tag = "err" /\ ret.err.kind = "UnexpectedToken"
        ELSE TRUE

\* the part of C7 that parse_neg_formula keeps: when a token follows the negation
C7_NegationWhenFollowed ==
    (Done("parse_formula") /\ IsTok(Toks, 1, "Minus") /\ NegationInRange) =>
        IF IsTok(Toks, 2, "Nat")
        THEN (Len(Toks) >= 3 /\ Toks[3].ok) => ret = Ok(FormulaLit(I64(TRUE, Toks[2].val)))
        ELSE IF IsTok(Toks, 2, "Open")
        THEN (/\ RefFormula(Toks, 1).ok
              /\ ret.tag = "ok") => ret = Ok(RefFormula(Toks, 1).f)
        ELSE IF Len(Toks) >= 2 /\ Toks[2].ok
        THEN ret.tag = "err" /\ ret.err.kind = "UnexpectedToken"
        ELSE TRUE

----------------------------------------------------------------------------
(* C11: expect                                                             *)

\* the item that follows the k-th item of the text in the parser's lookahead
ItemAfter(k, loc) ==
    IF k < Len(Toks) THEN Toks[k + 1] ELSE ParseError(loc, "UnexpectedEndOfFile")

\* expect has just been called with a token in the lookahead
ExpectCalled == called.fn = "expect" /\ called.before.peek.ok

ExpectMatched ==
    called.before.peek.kind = called.kind /\ called.before.peek.val = called.val

\* C11: after expect(kind) on a lookahead that is a token of that kind, the
\* lookahead is the next item and the call has returned Ok with the matched
\* token; on a token of another kind it has returned UnexpectedToken at the
\* lookahead's position and the parser is as before.
C11_ExpectReturnsMatched ==
    ExpectCalled =>
        IF ExpectMatched
        THEN /\ parser.peek = ItemAfter(Len(called.before.pulled), called.before.peek.loc)
             /\ ret = Ok(called.before.peek)
        ELSE /\ ret = Err(ParseError(called.before.peek.loc, "UnexpectedToken"))
             /\ parser = called.before

\* what expect does: all of C11 but the value returned on a match, which is the
\* new lookahead
C11_ExpectReturnsLookahead ==
    ExpectCalled =>
        IF ExpectMatched
        THEN /\ parser.peek = ItemAfter(Len(called.before.pulled), called.before.peek.loc)
             /\ ret = Result(parser.peek)
        ELSE /\ ret = Err(ParseError(called.before.peek.loc, "UnexpectedToken"))
             /\ parser = called.before

----------------------------------------------------------------------------
(* C12: the loop of parse_formula_list                                     *)

\* the tokens the parser has consumed: those it has pulled, but for the lookahead
TokensConsumed ==
    Cardinality({k \in 1..Len(parser.pulled) : parser.pulled[k].item.ok})
        - (IF parser.peek.ok THEN 1 ELSE 0)

\* C12: every iteration of the loop of parse_formula_list consumes at least one
\* token, which is why the loop ends: a running parse_formula_list has collected
\* no more formulas than tokens were consumed after the operator and the `(`
\* that open its list.
C12_ListLoopConsumes ==
    \A i \in 1..Len(stack) :
        stack[i].fn = "parse_formula_list" =>
            Len(stack[i].formulas) + 2 <= TokensConsumed

\* the iteration that makes no progress: parse_formula has returned a literal to
\* the loop and the lookahead is still the Nat it was made from
C12_IdleIteration ==
    /\ Running("parse_formula_list") /\ Top.pc = 1
    /\ ret.tag = "ok" /\ ret.val.t = "Lit"
    /\ parser.peek.ok /\ parser.peek.kind = "Nat"
    /\ ret.val.v = I64(FALSE, parser.peek.val)
    /\ Len(Top.formulas) + 1 = MaxFormulas

\* the part of C12 about parse_dimacs: it pulls at most three items, whatever
\* the input
C12_ParseDimacsPullsThree == entry = "parse_dimacs" => Len(parser.pulled) <= 3

----------------------------------------------------------------------------
(* C13: the values of the literals                                         *)

\* the raw lexer has answered Nat tokens with the values of their runs, none zero
NatsCarryRunValue(fits) ==
    \A k \in 1..Len(rout) :
        (rout[k].item.ok /\ rout[k].item.kind = "Nat" /\ fits[RunValue(rout[k].start)]) =>
            /\ rout[k].item.val = RunValue(rout[k].start)
            /\ rout[k].item.val # U64(0)

\* parse_formula has returned a literal: it is not zero, Nat(v) has given the
\* variable v with the positive sign and `-` Nat(v) with the negative sign
LiteralsCarryRunValue(fits) ==
    (Done("parse_formula") /\ ret.tag = "ok" /\ ret.val.t = "Lit") =>
        /\ IsTok(Toks, 1, "Nat") /\ fits[TextValue(1)] =>
              /\ ret.val.v = I64(FALSE, TextValue(1))
              /\ ret.val.v.mag # U64(0)
        /\ IsTok(Toks, 1, "Minus") /\ fits[TextValue(2)] =>
              /\ ret.val.v = I64(TRUE, TextValue(2))
              /\ ret.val.v.mag # U64(0)

AnyValue == [v \in {RunValue(i) : i \in 1..Len(input)} |-> TRUE]

BelowTwo63 == [v \in {RunValue(i) : i \in 1..Len(input)} |-> Less(v, Two63)]

\* C13: every Nat token carries a value >= 1 equal to the decimal value of its
\* digit run, Nat(v) in formula position gives the literal of variable v with
\* the positive sign and `-` Nat(v) the one with the negative sign, for every
\* digit run, whatever its value; no literal is zero.
C13_LiteralOfEveryRun == NatsCarryRunValue(AnyValue) /\ LiteralsCarryRunValue(AnyValue)

\* the part of C13 that the code keeps: the digit runs whose value is below 2^63
C13_LiteralOfRunBelowTwo63 ==
    NatsCarryRunValue(BelowTwo63) /\ LiteralsCarryRunValue(BelowTwo63)

\* the run 2^63 - 1 has been parsed to the literal of that variable
C13_LargestGoodLiteral ==
    /\ Done("parse_formula")
    /\ ret = Ok(FormulaLit(I64(FALSE, Minus(Two63, U64(1)))))

====
